---- MODULE Spec2Model ----
(***************************************************************************)
(* Statistical process monitoring: the autoencoder pipeline of src/ae.py   *)
(* (AEAnalyzer, run_fault_detection) and the PCA pipeline of src/Pca.py    *)
(* (PCAAnalyzer, PCAWidget).                                               *)
(*                                                                         *)
(* Real numbers are kept exact as scaled integers: a confidence level is   *)
(* given in thousandths (990 for 0.99), a percentile limit is carried      *)
(* multiplied by 1000, a KDE grid point multiplied by GridN - 1.           *)
(***************************************************************************)
EXTENDS Integers, Sequences, FiniteSets, TLC

(* ----------------------------- bounds ---------------------------------- *)
MaxRows == 2        \* rows of an input table of the autoencoder path
MaxCols == 2        \* columns of an input table of the autoencoder path
MaxEpochs == 2      \* largest epochs argument
MaxResid == 1       \* largest absolute reconstruction residual

MaxStat == 2        \* largest value of a statistic handed to an estimator
MaxStatLen == 3     \* longest statistic handed to an estimator
KernelBits == 6     \* a kernel value below 2^-KernelBits underflows to 0
PcaMaxRows == 6     \* rows of an input table of the PCA path
MaxComponents == 3  \* most components PCA retains
MaxRuns == 2        \* run_analysis calls on one PCAAnalyzer
MaxCalls == 2       \* train_model calls on one AEAnalyzer
MaxDim == 12        \* largest input dimension an autoencoder is built for
MaxOutlierRows == 4 \* rows of a table handed to the outlier step

OutlierValues == {0, 1, 4}   \* cell values of such a table
OutlierColumns == {1, 2}     \* column counts of such a table

Losses == {1, 2}    \* abstract per-epoch average losses

PcaStatValues == {0, 1}   \* abstract T2 / SPE values of the validation part

\* confidence levels in thousandths
ConfLevels == {500, 950, 990, 999}

\* the confidence levels of (0, 1], 1.0 included
ConfLevelsClosed == ConfLevels \cup {1000}

(* --------------------------- small helpers ----------------------------- *)
Max(a, b) == IF a >= b THEN a ELSE b
Min(a, b) == IF a <= b THEN a ELSE b

RECURSIVE SeqSum(_)
SeqSum(s) == IF s = <<>> THEN 0 ELSE s[1] + SeqSum(Tail(s))

RECURSIVE SeqMax(_)
SeqMax(s) == IF Len(s) = 1 THEN s[1] ELSE Max(s[1], SeqMax(Tail(s)))

RECURSIVE SeqMin(_)
SeqMin(s) == IF Len(s) = 1 THEN s[1] ELSE Min(s[1], SeqMin(Tail(s)))

(* math.ceil(test_size * n_samples) of train_test_split for test_size 0.2 *)
NTest(n) == (n + 4) \div 5

VARIABLES
  hasCallback,   \* progress_callback is not None
  epochs,        \* the epochs argument
  pc,            \* position inside run_fault_detection / train_model
  data,          \* load_data's return value
  split,         \* sizes of X_train / X_test
  model,         \* AEAnalyzer.model
  is_trained,    \* AEAnalyzer.is_trained
  train_losses,  \* AEAnalyzer.train_losses
  epoch,         \* loop variable of the training loop
  trainResult,   \* train_model's return value
  msgs,          \* messages delivered to progress_callback, in order
  stats,         \* re2_test / spe_test
  limits,        \* re2_control_limit / spe_control_limit (times 1000)
  anomalies,     \* re2_anomalies / spe_anomalies
  failed,        \* the stage that failed, "none" while none has
  ret,           \* what run_fault_detection returned
  raised,        \* an exception left run_fault_detection or train_model
  fstat,         \* a statistic handed to the estimators and the classifier
  flimit,        \* the control limit handed to detect_anomalies (times 1000)
  fdone,         \* the functions applied to fstat so far
  fanom,         \* detect_anomalies(fstat, flimit)
  fpct,          \* calculate_control_limits(fstat, c) for each level c
  fkde,          \* _calculate_control_limit(fstat, c) for each level c
  pruns,         \* run_analysis calls started on the PCAAnalyzer
  ppc,           \* position inside run_analysis, "idle" between calls
  pin,           \* the arguments of the run_analysis call in progress
  pwork,         \* the locals of the run_analysis call in progress
  results,       \* PCAAnalyzer.results
  pca_vis_data,  \* PCAAnalyzer.pca_vis_data
  status,        \* the text of PCAWidget.status_label
  runStatus,     \* the last status that run_analysis issued
  preturn,       \* the return value of the last run_analysis call
  display,       \* the content of PCAWidget.chart_container
  dcase,         \* the data-level function under study
  ddone,         \* that function has been applied
  dfile,         \* the table handed to load_data
  dframe,        \* the data frame load_data returned
  ddim,          \* X_train.shape[1] of a train_model call
  dmodel,        \* the autoencoder that call built
  otable,        \* the table read by _preprocess_data, a sequence of columns
  oremove,       \* the remove_outliers argument
  oclean,        \* the table after the outlier step, cells as fractions
  tin,           \* a train_model call: epochs, is_trained before, what fails
  tout,          \* what that call returns and leaves, with and without callback
  sresid,        \* the residuals of a batch handed to calculate_statistics
  sstat,         \* the re2 and spe arrays it returned
  calls,         \* train_model calls made on the AEAnalyzer
  statOutcome    \* how the last calculate_statistics call ended

aeVars == <<hasCallback, epochs, pc, data, split, model, is_trained,
            train_losses, epoch, trainResult, msgs, stats, limits,
            anomalies, failed, ret, raised>>

fnVars == <<fstat, flimit, fdone, fanom, fpct, fkde>>

pcaVars == <<pruns, ppc, pin, pwork, results, pca_vis_data, status, runStatus,
             preturn, display>>

dataVars == <<dcase, ddone, dfile, dframe, ddim, dmodel, otable, oremove, oclean,
              tin, tout, sresid, sstat>>

callVars == <<calls, statOutcome>>

vars == <<aeVars, fnVars, pcaVars, dataVars, callVars>>

(* ------------------------- AEAnalyzer.load_data ------------------------ *)
Tables(r, c) ==
  { [readable |-> TRUE, rows |-> r, cols |-> c, numeric |-> nm, missing |-> ms] :
      nm \in [1..c -> BOOLEAN], ms \in [1..r -> [1..c -> BOOLEAN]] }

Unreadable ==
  [readable |-> FALSE, rows |-> 0, cols |-> 0, numeric |-> <<>>, missing |-> <<>>]

Files == {Unreadable} \cup UNION { Tables(r, c) : r \in 0..MaxRows, c \in 0..MaxCols }

NoData == [ok |-> FALSE, rows |-> 0, cols |-> 0]

NumericColumns(f) == { c \in 1..f.cols : f.numeric[c] }

\* a dropna that drops a row only when all its retained cells are missing
KeptRowsWithAnyValue(f) ==
  { r \in 1..f.rows : \E c \in NumericColumns(f) : ~f.missing[r][c] }

KeptRows(f) == { r \in 1..f.rows : \A c \in NumericColumns(f) : ~f.missing[r][c] }

NoFrame == [ok |-> FALSE, rows |-> {}, cols |-> {}]

\* the frame load_data returns, as the rows and columns of the table it keeps;
\* data.empty holds when either axis has length 0
DataFrame(f) ==
  IF ~f.readable THEN NoFrame
  ELSE IF NumericColumns(f) = {} \/ KeptRows(f) = {} THEN NoFrame
  ELSE [ok |-> TRUE, rows |-> KeptRows(f), cols |-> NumericColumns(f)]

\* the shape of the frame load_data returns
load_data(f) ==
  IF ~DataFrame(f).ok THEN NoData
  ELSE [ok |-> TRUE, rows |-> Cardinality(DataFrame(f).rows),
        cols |-> Cardinality(DataFrame(f).cols)]

(* ------------------------- progress callback --------------------------- *)
Msg(t, k) == [tag |-> t, n |-> k]

Emit(s) == IF hasCallback THEN msgs \o s ELSE msgs

FailureTags == {"train_failed", "analysis_error"}

(* --------------------- AEAnalyzer.preprocess_data ---------------------- *)
NoSplit == [ok |-> FALSE, n_train |-> 0, n_test |-> 0]

\* train_test_split raises ValueError when the training part would be empty
preprocess_data(d, envFails) ==
  IF envFails \/ d.rows - NTest(d.rows) = 0 THEN NoSplit
  ELSE [ok |-> TRUE, n_train |-> d.rows - NTest(d.rows), n_test |-> NTest(d.rows)]

(* ----------------------- AEAnalyzer statistics ------------------------- *)
\* X_data - X_reconstructed: one signed residual per observation and feature
Residuals(rows, cols) == [1..rows -> [1..cols -> (-MaxResid)..MaxResid]]

\* batch shapes handed to calculate_statistics on its own
BatchRows == {1, 2}
BatchCols == {1, 2, 3}
Batches == UNION { Residuals(r, c) : r \in BatchRows, c \in BatchCols }

Squares(row) == [c \in 1..Len(row) |-> row[c] * row[c]]

\* torch.sum(reconstruction_error ** 2, dim=1)
Spe(resid) == [i \in 1..Len(resid) |-> SeqSum(Squares(resid[i]))]

\* the square of the largest signed residual of each observation
Re2OfSignedMax(resid) ==
  [i \in 1..Len(resid) |-> SeqMax(resid[i]) * SeqMax(resid[i])]

\* torch.max(reconstruction_error ** 2, dim=1)[0]
Re2(resid) == [i \in 1..Len(resid) |-> SeqMax(Squares(resid[i]))]

(* ------------- AEAnalyzer.calculate_control_limits --------------------- *)
\* the sequence s without the first occurrence of v
RECURSIVE RemoveOne(_, _)
RemoveOne(s, v) ==
  IF s[1] = v THEN Tail(s) ELSE <<s[1]>> \o RemoveOne(Tail(s), v)

RECURSIVE SortAsc(_)
SortAsc(s) ==
  IF s = <<>> THEN <<>>
  ELSE <<SeqMin(s)>> \o SortAsc(RemoveOne(s, SeqMin(s)))

\* a percentile taken at the complement of the confidence level
PercentileOfComplement(s, conf) ==
  LET srt == SortAsc(s)
      pos == (1000 - conf) * (Len(s) - 1)
      lo == pos \div 1000
      fr == pos % 1000
  IN IF lo + 1 >= Len(s) THEN 1000 * srt[Len(s)]
     ELSE 1000 * srt[lo + 1] + fr * (srt[lo + 2] - srt[lo + 1])

\* np.percentile(statistics, confidence_level * 100), linear interpolation
\* between the two closest ranks; conf in thousandths, result times 1000.
Percentile(s, conf) ==
  LET srt == SortAsc(s)
      pos == conf * (Len(s) - 1)
      lo == pos \div 1000
      fr == pos % 1000
  IN IF lo + 1 >= Len(s) THEN 1000 * srt[Len(s)]
     ELSE 1000 * srt[lo + 1] + fr * (srt[lo + 2] - srt[lo + 1])

DefaultConfidence == 990

\* np.percentile accepts a single observation: no length check precedes it
calculate_control_limits(s, conf) == [ok |-> TRUE, value |-> Percentile(s, conf)]

(* -------------------- AEAnalyzer.detect_anomalies ---------------------- *)
\* a classifier that also flags a value equal to the limit
AnomalyMaskInclusive(s, limit, scale) == [i \in 1..Len(s) |-> scale * s[i] >= limit]

\* statistics > control_limit, for a limit given times scale
AnomalyMask(s, limit, scale) == [i \in 1..Len(s) |-> scale * s[i] > limit]

\* np.where(mask)[0]: the true positions in ascending order (0-based)
RECURSIVE WhereFrom(_, _)
WhereFrom(mask, i) ==
  IF i > Len(mask) THEN <<>>
  ELSE (IF mask[i] THEN <<i - 1>> ELSE <<>>) \o WhereFrom(mask, i + 1)

Where(mask) == WhereFrom(mask, 1)

\* percentage is the exact fraction pct_num / pct_den
detect_anomalies(s, limit1000) ==
  LET mask == AnomalyMask(s, limit1000, 1000)
      idx == Where(mask)
  IN [mask |-> mask, indices |-> idx, count |-> Len(idx),
      pct_num |-> Len(idx) * 100, pct_den |-> Len(s)]

(* ---------------- PCAAnalyzer._calculate_control_limit ----------------- *)
GridN == 1000

RECURSIVE Pow2(_)
Pow2(k) == IF k = 0 THEN 1 ELSE 2 * Pow2(k - 1)

\* the Gaussian kernel of gaussian_kde in fixed point, for a distance d given
\* in units of 1 / (GridN - 1): 2^KernelBits at distance 0, halving with the
\* squared distance, 0 once it underflows
Kernel(d) ==
  LET q == (d * d) \div ((GridN - 1) * (GridN - 1))
  IN IF q > KernelBits THEN 0 ELSE Pow2(KernelBits - q)

\* np.linspace(lo, hi, GridN)[k], times GridN - 1
GridX(lo, hi, k) == (GridN - 1) * lo + k * (hi - lo)

\* kde(x) for one grid point x (times GridN - 1): the kernels of s[i..] added
RECURSIVE KdeAt(_, _, _)
KdeAt(s, x, i) ==
  IF i > Len(s) THEN 0 ELSE Kernel(x - (GridN - 1) * s[i]) + KdeAt(s, x, i + 1)

\* np.cumsum(kde(x)) restricted to the grid points lo..hi (1-based), acc
\* being the sum before lo; the range is halved to keep the recursion shallow
RECURSIVE CumSum(_, _, _, _, _, _)
CumSum(s, smin, smax, lo, hi, acc) ==
  IF lo > hi THEN <<>>
  ELSE IF lo = hi THEN <<acc + KdeAt(s, GridX(smin, smax, lo - 1), 1)>>
  ELSE LET mid == (lo + hi) \div 2
           left == CumSum(s, smin, smax, lo, mid, acc)
       IN left \o CumSum(s, smin, smax, mid + 1, hi, left[Len(left)])

\* np.where(cdf >= confidence_level)[0][0] within lo..hi, 0 when the match
\* set is empty; cdf[k] = cum[k] / total
RECURSIVE FirstReaching(_, _, _, _, _)
FirstReaching(cum, total, conf, lo, hi) ==
  IF lo > hi THEN 0
  ELSE IF lo = hi THEN (IF 1000 * cum[lo] >= conf * total THEN lo ELSE 0)
  ELSE LET mid == (lo + hi) \div 2
           l == FirstReaching(cum, total, conf, lo, mid)
       IN IF l # 0 THEN l ELSE FirstReaching(cum, total, conf, mid + 1, hi)

NoKdeLimit(e) == [ok |-> FALSE, error |-> e, value |-> 0]

\* gaussian_kde raises ValueError on fewer than two observations and
\* LinAlgError on a statistic of zero variance; [0][0] raises IndexError when
\* no grid point reaches the level.  value is the limit times GridN - 1.
KdeLimits(s) ==
  IF Len(s) < 2 THEN [c \in ConfLevelsClosed |-> NoKdeLimit("ValueError")]
  ELSE IF SeqMin(s) = SeqMax(s)
    THEN [c \in ConfLevelsClosed |-> NoKdeLimit("LinAlgError")]
  ELSE LET smin == SeqMin(s)
           smax == SeqMax(s)
           cum == CumSum(s, smin, smax, 1, GridN, 0)
           total == cum[GridN]
       IN [c \in ConfLevelsClosed |->
             LET k == FirstReaching(cum, total, c, 1, GridN)
             IN IF k = 0 THEN NoKdeLimit("IndexError")
                ELSE [ok |-> TRUE, error |-> "", value |-> GridX(smin, smax, k - 1)]]

StatInputs == UNION { [1..n -> 0..MaxStat] : n \in 1..MaxStatLen }

\* the limits of every statistic of StatInputs; comparing the table makes TLC
\* tabulate it once instead of evaluating the density again at every use
KdeTable ==
  LET t == [s \in StatInputs |-> KdeLimits(s)]
  IN IF t = t THEN t ELSE <<>>

_calculate_control_limit(s, conf) == KdeTable[s][conf]

\* line 135 in floating point: np.cumsum adds the densities one after the
\* other, np.sum adds them pairwise, so cumsum[-1] and the sum may differ in
\* the last bits and cdf[-1] = cumsum[-1] / sum is 1.0 or falls short of it.
\* The relative error is far below the distance of any level under 1.0 from
\* 1.0, so only the lookup at level 1.0 depends on it: when cdf[-1] falls
\* short no grid point matches and [0][0] raises IndexError.
InFloatingPoint(lim, conf, fallsShort) ==
  IF lim.ok /\ conf = 1000 /\ fallsShort THEN NoKdeLimit("IndexError") ELSE lim

(* ------------------------ run_fault_detection -------------------------- *)
NoModel == [input_dim |-> 0, encoding_dim |-> 0]
NoStats == [ok |-> FALSE, re2 |-> <<>>, spe |-> <<>>]
NoLimits == [ok |-> FALSE, re2 |-> 0, spe |-> 0]
NoAnomaly == [mask |-> <<>>, indices |-> <<>>, count |-> 0, pct_num |-> 0, pct_den |-> 1]
NoAnomalies == [ok |-> FALSE, re2 |-> NoAnomaly, spe |-> NoAnomaly]

ResultKeys == {"analyzer", "data", "X_train", "X_test", "re2_test", "spe_test",
               "re2_control_limit", "spe_control_limit", "re2_anomalies",
               "spe_anomalies", "train_losses"}

Running == [kind |-> "running", keys |-> {}, stats |-> NoStats, limits |-> NoLimits,
            anomalies |-> NoAnomalies, train_losses |-> <<>>]
RetNone == [kind |-> "None", keys |-> {}, stats |-> NoStats, limits |-> NoLimits,
            anomalies |-> NoAnomalies, train_losses |-> <<>>]

AEInit ==
  /\ hasCallback \in BOOLEAN
  /\ epochs \in 0..MaxEpochs
  /\ pc = "start"
  /\ data = NoData
  /\ split = NoSplit
  /\ model = NoModel
  /\ is_trained = FALSE
  /\ train_losses = <<>>
  /\ epoch = 0
  /\ trainResult = "none"
  /\ msgs = <<>>
  /\ stats = NoStats
  /\ limits = NoLimits
  /\ anomalies = NoAnomalies
  /\ failed = "none"
  /\ ret = Running
  /\ raised = FALSE

\* a run_fault_detection whose try block does not cover the failing statement
RfdExceptPropagates ==
  /\ msgs' = msgs
  /\ ret' = ret
  /\ raised' = TRUE
  /\ pc' = "done"

\* a handler that reports the error and then announces completion
RfdExceptAnnouncesCompletion ==
  /\ msgs' = Emit(<<Msg("analysis_error", 0), Msg("complete", 0)>>)
  /\ ret' = RetNone
  /\ raised' = raised
  /\ pc' = "done"

\* lines 277-281: the handler of run_fault_detection's try block
RfdExcept ==
  /\ msgs' = Emit(<<Msg("analysis_error", 0)>>)
  /\ ret' = RetNone
  /\ raised' = raised
  /\ pc' = "done"

\* a handler that returns False without telling the callback
TrainExceptSilent(sofar) ==
  /\ msgs' = sofar
  /\ trainResult' = "False"
  /\ raised' = raised
  /\ pc' = "train_returned"

\* lines 162-166: the handler of train_model's try block
TrainExcept(sofar) ==
  /\ msgs' = (IF hasCallback THEN sofar \o <<Msg("train_failed", 0)>> ELSE sofar)
  /\ trainResult' = "False"
  /\ raised' = raised
  /\ pc' = "train_returned"

\* lines 211-216
RfdStart ==
  /\ pc = "start"
  /\ msgs' = Emit(<<Msg("loading", 0)>>)
  /\ pc' = "load"
  /\ UNCHANGED <<hasCallback, epochs, data, split, model, is_trained, train_losses,
                 epoch, trainResult, stats, limits, anomalies, failed, ret, raised>>

\* lines 219-225
RfdLoad ==
  /\ pc = "load"
  /\ \E f \in Files :
       /\ data' = load_data(f)
       /\ IF ~data'.ok
            THEN /\ ret' = RetNone
                 /\ failed' = "load"
                 /\ pc' = "done"
                 /\ msgs' = msgs
            ELSE /\ msgs' = Emit(<<Msg("loaded", 0), Msg("preprocessing", 0)>>)
                 /\ pc' = "preprocess"
                 /\ UNCHANGED <<ret, failed>>
  /\ UNCHANGED <<hasCallback, epochs, split, model, is_trained, train_losses,
                 epoch, trainResult, stats, limits, anomalies, raised>>

\* lines 228-233
RfdPreprocess ==
  /\ pc = "preprocess"
  /\ \E envFails \in BOOLEAN :
       /\ split' = preprocess_data(data, envFails)
       /\ IF ~split'.ok
            THEN /\ ret' = RetNone
                 /\ failed' = "preprocess"
                 /\ pc' = "done"
                 /\ msgs' = msgs
            ELSE /\ msgs' = Emit(<<Msg("preprocessed", 0)>>)
                 /\ pc' = "train_setup"
                 /\ UNCHANGED <<ret, failed>>
  /\ UNCHANGED <<hasCallback, epochs, data, model, is_trained, train_losses,
                 epoch, trainResult, stats, limits, anomalies, raised>>

(* ----------------------- AEAnalyzer.train_model ------------------------ *)
\* line 22: the latent width AutoEncoder takes when none is passed
DefaultEncodingDim == 10

\* lines 22-43: the layer widths of AutoEncoder(input_dim, encoding_dim)
AutoEncoder(input_dim, encoding_dim) ==
  [input_dim |-> input_dim, encoding_dim |-> encoding_dim]

\* a train_model that leaves the latent width to the constructor
EncodingDimByDefault(input_dim) == DefaultEncodingDim

\* line 112
EncodingDim(input_dim) == Max(2, input_dim \div 4)

\* lines 110-131: build the model, reset the loss curve, announce the start
TrainSetup ==
  /\ pc = "train_setup"
  /\ \E failAt \in {"none", "before_model", "after_model"} :
       /\ model' = IF failAt = "before_model" THEN model
                   ELSE AutoEncoder(data.cols, EncodingDim(data.cols))
       /\ IF failAt # "none"
            THEN /\ TrainExcept(msgs)
                 /\ failed' = "train_setup"
                 /\ UNCHANGED <<train_losses, epoch>>
            ELSE /\ train_losses' = <<>>
                 /\ msgs' = Emit(<<Msg("train_start", 0), Msg("train_structure", 0),
                                   Msg("train_params", epochs), Msg("separator", 0)>>)
                 /\ epoch' = 0
                 /\ pc' = "train_loop"
                 /\ UNCHANGED <<failed, trainResult, raised>>
  /\ UNCHANGED <<hasCallback, epochs, data, split, is_trained, stats, limits,
                 anomalies, ret>>

\* a progress line that numbers the epochs from 0
EpochMsgZeroBased(e) == Msg("epoch", e)

\* line 151: the progress line of loop index e
EpochMsg(e) == Msg("epoch", e + 1)

\* lines 135-151: one pass of the loop body
TrainEpoch ==
  /\ pc = "train_loop"
  /\ epoch < epochs
  /\ \E throws \in BOOLEAN, loss \in Losses :
       IF throws
         THEN /\ TrainExcept(msgs)
              /\ failed' = "train_epoch"
              /\ UNCHANGED <<train_losses, epoch>>
         ELSE /\ train_losses' = Append(train_losses, loss)
              /\ msgs' = Emit(<<EpochMsg(epoch)>>)
              /\ epoch' = epoch + 1
              /\ UNCHANGED <<pc, failed, trainResult, raised>>
  /\ UNCHANGED <<hasCallback, epochs, data, split, model, is_trained, stats, limits,
                 anomalies, ret>>

\* lines 153-160: after the loop; train_losses[-1] raises IndexError on []
TrainFinish ==
  /\ pc = "train_loop"
  /\ epoch = epochs
  /\ is_trained' = TRUE
  /\ IF hasCallback /\ train_losses = <<>>
       THEN /\ TrainExcept(msgs \o <<Msg("separator", 0), Msg("train_done", 0)>>)
            /\ failed' = "train_final"
       ELSE /\ msgs' = Emit(<<Msg("separator", 0), Msg("train_done", 0),
                              Msg("final_loss", IF train_losses = <<>> THEN 0
                                                ELSE train_losses[Len(train_losses)])>>)
            /\ trainResult' = "True"
            /\ pc' = "train_returned"
            /\ UNCHANGED <<failed, raised>>
  /\ UNCHANGED <<hasCallback, epochs, data, split, model, train_losses, epoch,
                 stats, limits, anomalies, ret>>

\* lines 236-241
RfdAfterTrain ==
  /\ pc = "train_returned"
  /\ IF trainResult = "False"
       THEN /\ ret' = RetNone
            /\ pc' = "done"
            /\ msgs' = msgs
       ELSE /\ msgs' = Emit(<<Msg("computing", 0)>>)
            /\ pc' = "statistics"
            /\ ret' = ret
  /\ UNCHANGED <<hasCallback, epochs, data, split, model, is_trained, train_losses,
                 epoch, trainResult, stats, limits, anomalies, failed, raised>>

\* line 244 with lines 168-187
RfdStatistics ==
  /\ pc = "statistics"
  /\ \E throws \in BOOLEAN, resid \in Residuals(split.n_test, data.cols) :
       IF throws \/ ~is_trained
         THEN /\ RfdExcept
              /\ failed' = "statistics"
              /\ stats' = stats
         ELSE /\ stats' = [ok |-> TRUE, re2 |-> Re2(resid), spe |-> Spe(resid)]
              /\ pc' = "limits"
              /\ UNCHANGED <<msgs, ret, failed, raised>>
  /\ UNCHANGED <<hasCallback, epochs, data, split, model, is_trained, train_losses,
                 epoch, trainResult, limits, anomalies>>

\* lines 247-248
RfdLimits ==
  /\ pc = "limits"
  /\ \E throws \in BOOLEAN :
       IF throws
         THEN /\ RfdExcept
              /\ failed' = "limits"
              /\ limits' = limits
         ELSE /\ limits' =
                   [ok |-> TRUE,
                    re2 |-> calculate_control_limits(stats.re2, DefaultConfidence).value,
                    spe |-> calculate_control_limits(stats.spe, DefaultConfidence).value]
              /\ pc' = "classify"
              /\ UNCHANGED <<msgs, ret, failed, raised>>
  /\ UNCHANGED <<hasCallback, epochs, data, split, model, is_trained, train_losses,
                 epoch, trainResult, stats, anomalies>>

\* lines 261-273: the result dictionary, built in one expression
ResultBundle(st, lim, an, losses) ==
  [kind |-> "results", keys |-> ResultKeys, stats |-> st, limits |-> lim,
   anomalies |-> an, train_losses |-> losses]

\* lines 251-275
RfdClassify ==
  /\ pc = "classify"
  /\ \E throws \in BOOLEAN :
       IF throws
         THEN /\ RfdExcept
              /\ failed' = "classification"
              /\ anomalies' = anomalies
         ELSE /\ anomalies' = [ok |-> TRUE,
                               re2 |-> detect_anomalies(stats.re2, limits.re2),
                               spe |-> detect_anomalies(stats.spe, limits.spe)]
              /\ msgs' = Emit(<<Msg("stats_done", 0),
                                Msg("re2_report", anomalies'.re2.count),
                                Msg("spe_report", anomalies'.spe.count),
                                Msg("complete", 0)>>)
              /\ ret' = ResultBundle(stats, limits, anomalies', train_losses)
              /\ pc' = "done"
              /\ UNCHANGED <<failed, raised>>
  /\ UNCHANGED <<hasCallback, epochs, data, split, model, is_trained, train_losses,
                 epoch, trainResult, stats, limits>>

AENext ==
  \/ RfdStart
  \/ RfdLoad
  \/ RfdPreprocess
  \/ TrainSetup
  \/ TrainEpoch
  \/ TrainFinish
  \/ RfdAfterTrain
  \/ RfdStatistics
  \/ RfdLimits
  \/ RfdClassify

(* --------------- train_model as a function of its inputs --------------- *)
\* what the environment does during a call of e epochs: nothing, a failure
\* before or after the model is built, or a failure in the pass of loop
\* index at; losses are the average losses of the epochs that complete
TrainEnvs(e) ==
  { [failAt |-> f, at |-> 0, losses |-> l] :
      f \in {"none", "before_model", "after_model"}, l \in [1..e -> Losses] }
  \cup { [failAt |-> "epoch", at |-> k, losses |-> l] :
           k \in 0..(e - 1), l \in [1..e -> Losses] }

TrainCalls ==
  UNION { { [epochs |-> e, was_trained |-> w, env |-> v] :
              w \in BOOLEAN, v \in TrainEnvs(e) } : e \in 0..MaxEpochs }

NoTrainCall == [epochs |-> 0, was_trained |-> FALSE,
                env |-> [failAt |-> "none", at |-> 0, losses |-> <<>>]]

TrainOutcome(r, t, l) == [result |-> r, is_trained |-> t, train_losses |-> l]

NoOutcome == TrainOutcome("none", FALSE, <<>>)

\* lines 108-166 on an analyzer whose train_losses is []: the return value
\* and the is_trained and train_losses the call leaves
train_model(callback, c) ==
  CASE c.env.failAt \in {"before_model", "after_model"} ->
         TrainOutcome("False", c.was_trained, <<>>)
    [] c.env.failAt = "epoch" ->
         TrainOutcome("False", c.was_trained, SubSeq(c.env.losses, 1, c.env.at))
    [] OTHER ->
         IF callback /\ c.env.losses = <<>>
           THEN TrainOutcome("False", TRUE, c.env.losses)
           ELSE TrainOutcome("True", TRUE, c.env.losses)

(* ------------------ PCAAnalyzer._preprocess_data ----------------------- *)
\* data.quantile(q) of one column for q = quarters / 4, times 4: linear
\* interpolation between the two closest ranks
Quantile(col, quarters) ==
  LET srt == SortAsc(col)
      pos == quarters * (Len(col) - 1)
      lo == pos \div 4
      fr == pos % 4
  IN IF lo + 1 >= Len(col) THEN 4 * srt[Len(col)]
     ELSE 4 * srt[lo + 1] + fr * (srt[lo + 2] - srt[lo + 1])

\* lines 76-80, times 8: Q1 - 1.5 * IQR and Q3 + 1.5 * IQR
LowerBound(col) == 2 * Quantile(col, 1) - 3 * (Quantile(col, 3) - Quantile(col, 1))
UpperBound(col) == 2 * Quantile(col, 3) + 3 * (Quantile(col, 3) - Quantile(col, 1))

\* line 81
OutlierMask(col) ==
  [r \in 1..Len(col) |-> 8 * col[r] < LowerBound(col) \/ 8 * col[r] > UpperBound(col)]

Fraction(n, d) == [num |-> n, den |-> d]

\* the mean of the values that are not outliers
ColumnMeanOfInliers(col) ==
  LET keep == { r \in 1..Len(col) : ~OutlierMask(col)[r] }
      kept == [r \in 1..Len(col) |-> IF r \in keep THEN col[r] ELSE 0]
  IN Fraction(SeqSum(kept), Cardinality(keep))

\* line 84: data.mean(), taken over the table as read
ColumnMean(col) == Fraction(SeqSum(col), Len(col))

\* lines 82-84: masked cells become NaN, fillna puts the column mean there
CleanColumn(col) ==
  [r \in 1..Len(col) |->
     IF OutlierMask(col)[r] THEN ColumnMean(col) ELSE Fraction(col[r], 1)]

\* lines 75-85: the table after the outlier step
OutlierStep(table, remove_outliers) ==
  [c \in 1..Len(table) |->
     IF remove_outliers THEN CleanColumn(table[c])
     ELSE [r \in 1..Len(table[c]) |-> Fraction(table[c][r], 1)]]

OutlierTables ==
  UNION { [1..c -> [1..r -> OutlierValues]] : c \in OutlierColumns, r \in 1..MaxOutlierRows }

(* ------------------------- PCAAnalyzer / PCAWidget --------------------- *)
\* np.random.RandomState(42).permutation(n), the order ShuffleSplit draws
\* for train_test_split(..., random_state=42); rows are numbered from 0
ShufflePerm(n) ==
  CASE n = 1 -> <<0>>
    [] n = 2 -> <<1, 0>>
    [] n = 3 -> <<0, 1, 2>>
    [] n = 4 -> <<1, 3, 0, 2>>
    [] n = 5 -> <<1, 4, 2, 0, 3>>
    [] n = 6 -> <<0, 1, 5, 2, 4, 3>>
    [] n = 7 -> <<0, 1, 5, 2, 4, 3, 6>>
    [] n = 8 -> <<1, 5, 0, 7, 2, 4, 3, 6>>
    [] n = 9 -> <<7, 1, 5, 0, 8, 2, 4, 3, 6>>
    [] n = 10 -> <<8, 1, 5, 0, 7, 2, 9, 4, 3, 6>>

\* train_test_split: the first n_test rows of the permutation are the
\* validation part, the rest the training part
ValIdx(n) == SubSeq(ShufflePerm(n), 1, NTest(n))

\* a training part that starts at the last row of the validation part
TrainIdxOverlapping(n) == SubSeq(ShufflePerm(n), NTest(n), n)

TrainIdx(n) == SubSeq(ShufflePerm(n), NTest(n) + 1, n)

\* line 97: entry i of T2_train is computed from the scores at position i of
\* X_train, kept here as the number of the row those scores belong to.
\* lines 103-107: entry i of an SPE array subtracts row start + i of X_scaled
\* from the reconstruction of the scores at position i of the partition
SpeRows(start, idx) ==
  [i \in 1..Len(idx) |-> [scaled |-> start + i - 1, scores |-> idx[i]]]

BaseKeys == {"pca", "X_pca", "T2_train", "T2_val", "SPE_train", "SPE_val",
             "T2_limit", "SPE_limit"}
VisKeys == {"X_pca_vis", "T2_vis", "T2_limit_vis", "T2_outliers_vis"}

NoVis == [exists |-> FALSE, full |-> FALSE, run |-> 0]

\* a statistics step that does not reset pca_vis_data before the test
VisDataKeepsOld(old, ncomp, run) ==
  IF ncomp >= 3 THEN [exists |-> TRUE, full |-> TRUE, run |-> run]
  ELSE old

\* lines 110-127: pca_vis_data is reset, then filled when 3 components exist
VisData(old, ncomp, run) ==
  IF ncomp >= 3 THEN [exists |-> TRUE, full |-> TRUE, run |-> run]
  ELSE [exists |-> TRUE, full |-> FALSE, run |-> 0]

NoResults ==
  [present |-> FALSE, run |-> 0, ncomp |-> 0, keys |-> {}, t2_train |-> <<>>,
   spe_train |-> <<>>, spe_val |-> <<>>, T2_val |-> <<>>, SPE_val |-> <<>>, T2_limit |-> 0,
   SPE_limit |-> 0, vis_run |-> 0]

\* lines 48-61: the result dictionary and the merge of pca_vis_data
PcaBundle(run, w, t2, spe, t2lim, spelim, vis) ==
  [present |-> TRUE, run |-> run, ncomp |-> w.ncomp,
   keys |-> IF vis.exists /\ vis.full THEN BaseKeys \cup VisKeys ELSE BaseKeys,
   t2_train |-> w.t2_train,
   spe_train |-> w.spe_train, spe_val |-> w.spe_val, T2_val |-> t2, SPE_val |-> spe,
   T2_limit |-> t2lim, SPE_limit |-> spelim,
   vis_run |-> IF vis.exists /\ vis.full THEN vis.run ELSE 0]

NoInput == [readable |-> FALSE, n |-> 0, remove_outliers |-> FALSE]
PcaInputs ==
  {NoInput} \cup { [readable |-> TRUE, n |-> n, remove_outliers |-> r] :
                     n \in 1..PcaMaxRows, r \in BOOLEAN }

NoWork == [ncomp |-> 0, t2_train |-> <<>>, spe_train |-> <<>>, spe_val |-> <<>>]

Welcome == [kind |-> "welcome", run |-> 0, at |-> 0]

PcaInit ==
  /\ pruns = 0
  /\ ppc = "idle"
  /\ pin = NoInput
  /\ pwork = NoWork
  /\ results = NoResults
  /\ pca_vis_data = NoVis
  /\ status = "hidden"
  /\ runStatus = "hidden"
  /\ preturn = "none"
  /\ display = Welcome

\* lines 67-71: the handler of run_analysis
PcaExcept ==
  /\ status' = "failed"
  /\ runStatus' = "failed"
  /\ preturn' = "False"
  /\ ppc' = "idle"
  /\ results' = results

\* lines 24-27
PcaRunStart ==
  /\ ppc = "idle"
  /\ pruns < MaxRuns
  /\ pruns' = pruns + 1
  /\ \E i \in PcaInputs : pin' = i
  /\ pwork' = NoWork
  /\ status' = "running"
  /\ runStatus' = "running"
  /\ preturn' = "none"
  /\ ppc' = "preprocess"
  /\ UNCHANGED <<results, pca_vis_data, display>>

\* lines 30-31 with lines 73-89
PcaPreprocess ==
  /\ ppc = "preprocess"
  /\ IF ~pin.readable
       THEN PcaExcept
       ELSE /\ status' = "preprocessed"
            /\ runStatus' = "preprocessed"
            /\ ppc' = "pca"
            /\ UNCHANGED <<results, preturn>>
  /\ UNCHANGED <<pruns, pin, pwork, pca_vis_data, display>>

\* line 34 with lines 91-94: PCA keeps between 1 and min(rows, columns)
\* components, as many as reach 95% of the variance
PcaApply ==
  /\ ppc = "pca"
  /\ \E k \in 1..MaxComponents, throws \in BOOLEAN :
       IF throws
         THEN PcaExcept /\ pwork' = pwork
         ELSE /\ pwork' = [pwork EXCEPT !.ncomp = k]
              /\ ppc' = "split"
              /\ UNCHANGED <<results, status, runStatus, preturn>>
  /\ UNCHANGED <<pruns, pin, pca_vis_data, display>>

\* lines 37-40: train_test_split raises when the training part would be empty
PcaSplit ==
  /\ ppc = "split"
  /\ IF pin.n - NTest(pin.n) = 0
       THEN PcaExcept
       ELSE /\ status' = "computing"
            /\ runStatus' = "computing"
            /\ ppc' = "statistics"
            /\ UNCHANGED <<results, preturn>>
  /\ UNCHANGED <<pruns, pin, pwork, pca_vis_data, display>>

\* lines 41-66 with lines 96-130: statistics, control limits and the bundle
PcaCompute ==
  /\ ppc = "statistics"
  /\ \E t2 \in [1..NTest(pin.n) -> PcaStatValues],
        spe \in [1..NTest(pin.n) -> PcaStatValues],
        throws \in BOOLEAN :
       LET w == [pwork EXCEPT
                   !.t2_train = TrainIdx(pin.n),
                   !.spe_train = SpeRows(0, TrainIdx(pin.n)),
                   !.spe_val = SpeRows(Len(TrainIdx(pin.n)), ValIdx(pin.n))]
           vis == VisData(pca_vis_data, pwork.ncomp, pruns)
           t2lim == _calculate_control_limit(t2, DefaultConfidence)
           spelim == _calculate_control_limit(spe, DefaultConfidence)
       IN IF throws
            THEN PcaExcept /\ UNCHANGED <<pwork, pca_vis_data>>
            ELSE /\ pwork' = w
                 /\ pca_vis_data' = vis
                 /\ IF ~t2lim.ok \/ ~spelim.ok
                      THEN PcaExcept
                      ELSE /\ results' = PcaBundle(pruns, w, t2, spe, t2lim.value,
                                                   spelim.value, vis)
                           /\ status' = "done"
                           /\ runStatus' = "done"
                           /\ preturn' = "True"
                           /\ ppc' = "idle"
  /\ UNCHANGED <<pruns, pin, display>>

\* lines 430-436
ShowAnalysisResults ==
  /\ ppc = "idle"
  /\ status' = IF ~results.present THEN "need_analysis" ELSE "results_ready"
  /\ UNCHANGED <<pruns, ppc, pin, pwork, results, pca_vis_data, runStatus, preturn, display>>

\* what a chart operation leaves in the container: the chart of results.run,
\* drawn after pruns calls, or nothing when drawing raised
Drawn(kind, throws) ==
  IF throws THEN [kind |-> "empty", run |-> 0, at |-> pruns]
  ELSE [kind |-> kind, run |-> results.run, at |-> pruns]

\* lines 438-503
ShowMonitoringCharts ==
  /\ ppc = "idle"
  /\ IF ~results.present
       THEN status' = "need_analysis" /\ display' = display
       ELSE \E throws \in BOOLEAN :
              /\ display' = Drawn("monitoring", throws)
              /\ status' = IF throws THEN "chart_failed" ELSE "charts_shown"
  /\ UNCHANGED <<pruns, ppc, pin, pwork, results, pca_vis_data, runStatus, preturn>>

\* lines 505-525
ShowVarianceChart ==
  /\ ppc = "idle"
  /\ IF ~results.present
       THEN status' = "need_analysis" /\ display' = display
       ELSE \E throws \in BOOLEAN :
              /\ display' = Drawn("variance", throws)
              /\ status' = IF throws THEN "chart_failed" ELSE "variance_shown"
  /\ UNCHANGED <<pruns, ppc, pin, pwork, results, pca_vis_data, runStatus, preturn>>

\* lines 527-590
ShowProjections ==
  /\ ppc = "idle"
  /\ IF ~results.present
       THEN status' = "need_analysis" /\ display' = display
       ELSE IF "X_pca_vis" \notin results.keys
       THEN status' = "insufficient_dims" /\ display' = display
       ELSE \E throws \in BOOLEAN :
              /\ display' = Drawn("projections", throws)
              /\ status' = IF throws THEN "chart_failed" ELSE "projections_shown"
  /\ UNCHANGED <<pruns, ppc, pin, pwork, results, pca_vis_data, runStatus, preturn>>

\* lines 592-690
ResetToWelcome ==
  /\ ppc = "idle"
  /\ display' = Welcome
  /\ status' = "ready"
  /\ UNCHANGED <<pruns, ppc, pin, pwork, results, pca_vis_data, runStatus, preturn>>

PcaNext ==
  \/ PcaRunStart
  \/ PcaPreprocess
  \/ PcaApply
  \/ PcaSplit
  \/ PcaCompute
  \/ ShowAnalysisResults
  \/ ShowMonitoringCharts
  \/ ShowVarianceChart
  \/ ShowProjections
  \/ ResetToWelcome

(* --------- the estimators and the classifier as pure functions --------- *)
LimitInputs == { 500 * k : k \in 0..(2 * MaxStat) }

NoPct == [c \in ConfLevels |-> [ok |-> FALSE, value |-> 0]]
NoKde == [c \in ConfLevelsClosed |-> NoKdeLimit("")]

FnInit ==
  /\ fstat \in StatInputs
  /\ flimit = 0
  /\ fdone = {}
  /\ fanom = NoAnomaly
  /\ fpct = NoPct
  /\ fkde = NoKde

FnDetect ==
  /\ "detect" \notin fdone
  /\ \E l \in LimitInputs :
       /\ flimit' = l
       /\ fanom' = detect_anomalies(fstat, l)
  /\ fdone' = fdone \cup {"detect"}
  /\ UNCHANGED <<fstat, fpct, fkde>>

FnPercentile ==
  /\ "percentile" \notin fdone
  /\ fpct' = [c \in ConfLevels |-> calculate_control_limits(fstat, c)]
  /\ fdone' = fdone \cup {"percentile"}
  /\ UNCHANGED <<fstat, flimit, fanom, fkde>>

FnKde ==
  /\ "kde" \notin fdone
  /\ \E fallsShort \in BOOLEAN :
       fkde' = [c \in ConfLevelsClosed |->
                  InFloatingPoint(_calculate_control_limit(fstat, c), c, fallsShort)]
  /\ fdone' = fdone \cup {"kde"}
  /\ UNCHANGED <<fstat, flimit, fanom, fpct>>

FnNext ==
  \/ FnDetect
  \/ FnPercentile
  \/ FnKde

(* ---------------- data-level functions, one at a time ------------------ *)
DataInit ==
  /\ ddone = FALSE
  /\ dframe = NoFrame
  /\ dmodel = NoModel
  /\ oclean = <<>>
  /\ tout = [with |-> NoOutcome, without |-> NoOutcome]
  /\ sstat = NoStats
  /\ \/ /\ dcase = "load" /\ dfile \in Files
        /\ ddim = 0 /\ otable = <<>> /\ oremove = FALSE /\ tin = NoTrainCall
        /\ sresid = <<>>
     \/ /\ dcase = "build" /\ ddim \in 1..MaxDim
        /\ dfile = Unreadable /\ otable = <<>> /\ oremove = FALSE /\ tin = NoTrainCall
        /\ sresid = <<>>
     \/ /\ dcase = "outliers" /\ otable \in OutlierTables /\ oremove \in BOOLEAN
        /\ dfile = Unreadable /\ ddim = 0 /\ tin = NoTrainCall /\ sresid = <<>>
     \/ /\ dcase = "train" /\ tin \in TrainCalls
        /\ dfile = Unreadable /\ ddim = 0 /\ otable = <<>> /\ oremove = FALSE
        /\ sresid = <<>>
     \/ /\ dcase = "statistics" /\ sresid \in Batches
        /\ dfile = Unreadable /\ ddim = 0 /\ otable = <<>> /\ oremove = FALSE
        /\ tin = NoTrainCall

\* lines 63-86
DataLoad ==
  /\ dcase = "load"
  /\ ~ddone
  /\ dframe' = DataFrame(dfile)
  /\ ddone' = TRUE
  /\ UNCHANGED <<dcase, dfile, ddim, dmodel, otable, oremove, oclean, tin, tout,
                 sresid, sstat>>

\* lines 111-115
DataBuildModel ==
  /\ dcase = "build"
  /\ ~ddone
  /\ dmodel' = AutoEncoder(ddim, EncodingDim(ddim))
  /\ ddone' = TRUE
  /\ UNCHANGED <<dcase, dfile, dframe, ddim, otable, oremove, oclean, tin, tout,
                 sresid, sstat>>

\* src/Pca.py lines 75-85
DataOutliers ==
  /\ dcase = "outliers"
  /\ ~ddone
  /\ oclean' = OutlierStep(otable, oremove)
  /\ ddone' = TRUE
  /\ UNCHANGED <<dcase, dfile, dframe, ddim, dmodel, otable, oremove, tin, tout,
                 sresid, sstat>>

\* src/ae.py lines 108-166, once with a callback and once with None
DataTrain ==
  /\ dcase = "train"
  /\ ~ddone
  /\ tout' = [with |-> train_model(TRUE, tin), without |-> train_model(FALSE, tin)]
  /\ ddone' = TRUE
  /\ UNCHANGED <<dcase, dfile, dframe, ddim, dmodel, otable, oremove, oclean, tin,
                 sresid, sstat>>

\* src/ae.py lines 173-187, on a trained model
DataStatistics ==
  /\ dcase = "statistics"
  /\ ~ddone
  /\ sstat' = [ok |-> TRUE, re2 |-> Re2(sresid), spe |-> Spe(sresid)]
  /\ ddone' = TRUE
  /\ UNCHANGED <<dcase, dfile, dframe, ddim, dmodel, otable, oremove, oclean, tin,
                 tout, sresid>>

DataNext ==
  \/ DataLoad
  \/ DataBuildModel
  \/ DataOutliers
  \/ DataTrain
  \/ DataStatistics

DataIdle ==
  /\ ddone = FALSE
  /\ dcase = "none"
  /\ dfile = Unreadable
  /\ dframe = NoFrame
  /\ ddim = 0
  /\ dmodel = NoModel
  /\ otable = <<>>
  /\ oremove = FALSE
  /\ oclean = <<>>
  /\ tin = NoTrainCall
  /\ tout = [with |-> NoOutcome, without |-> NoOutcome]
  /\ sresid = <<>>
  /\ sstat = NoStats

(* ------- one AEAnalyzer under repeated train_model calls --------------- *)
CallIdle ==
  /\ calls = 0
  /\ statOutcome = "none"

\* lines 56-61, with a data set loaded and split for the calls to come
AnalyzerInit ==
  /\ hasCallback = FALSE
  /\ epochs = 0
  /\ pc = "idle"
  /\ \E f \in Files :
       /\ data = load_data(f)
       /\ split = preprocess_data(data, FALSE)
       /\ split.ok
  /\ model = NoModel
  /\ is_trained = FALSE
  /\ train_losses = <<>>
  /\ epoch = 0
  /\ trainResult = "none"
  /\ msgs = <<>>
  /\ stats = NoStats
  /\ limits = NoLimits
  /\ anomalies = NoAnomalies
  /\ failed = "none"
  /\ ret = Running
  /\ raised = FALSE
  /\ CallIdle

\* line 108: a caller enters train_model; msgs and failed are those of the
\* call in progress
CallTrain ==
  /\ pc = "idle"
  /\ calls < MaxCalls
  /\ calls' = calls + 1
  /\ hasCallback' \in BOOLEAN
  /\ epochs' \in 0..MaxEpochs
  /\ trainResult' = "none"
  /\ msgs' = <<>>
  /\ failed' = "none"
  /\ statOutcome' = "none"
  /\ pc' = "train_setup"
  /\ UNCHANGED <<data, split, model, is_trained, train_losses, epoch, stats, limits,
                 anomalies, ret, raised>>

\* lines 160 and 166: train_model hands its value back to the caller
TrainReturn ==
  /\ pc = "train_returned"
  /\ pc' = "idle"
  /\ UNCHANGED <<hasCallback, epochs, data, split, model, is_trained, train_losses,
                 epoch, trainResult, msgs, stats, limits, anomalies, failed, ret,
                 raised, callVars>>

\* lines 168-187: a caller asks for the statistics of X_test
CallStatistics ==
  /\ pc = "idle"
  /\ IF ~is_trained
       THEN /\ statOutcome' = "not_trained"
            /\ stats' = stats
       ELSE /\ \E resid \in Residuals(split.n_test, data.cols) :
                 stats' = [ok |-> TRUE, re2 |-> Re2(resid), spe |-> Spe(resid)]
            /\ statOutcome' = "returned"
  /\ UNCHANGED <<hasCallback, epochs, pc, data, split, model, is_trained,
                 train_losses, epoch, trainResult, msgs, limits, anomalies, failed,
                 ret, raised, calls>>

AnalyzerNext ==
  \/ CallTrain
  \/ TrainSetup /\ UNCHANGED callVars
  \/ TrainEpoch /\ UNCHANGED callVars
  \/ TrainFinish /\ UNCHANGED callVars
  \/ TrainReturn
  \/ CallStatistics

\* the autoencoder run before it starts, without callback
AEIdle ==
  /\ CallIdle
  /\ AEInit
  /\ hasCallback = FALSE
  /\ epochs = 0

FnIdle ==
  /\ FnInit
  /\ fstat = <<0>>

Init == AEInit /\ CallIdle /\ FnIdle /\ PcaInit /\ DataIdle

Next == AENext /\ UNCHANGED <<fnVars, pcaVars, dataVars, callVars>>

Spec == Init /\ [][Next]_vars

InitFn == AEIdle /\ FnInit /\ PcaInit /\ DataIdle

NextFn == FnNext /\ UNCHANGED <<aeVars, pcaVars, dataVars, callVars>>

SpecFn == InitFn /\ [][NextFn]_vars

InitPca == AEIdle /\ FnIdle /\ PcaInit /\ DataIdle

NextPca == PcaNext /\ UNCHANGED <<aeVars, fnVars, dataVars, callVars>>

SpecPca == InitPca /\ [][NextPca]_vars

InitData == AEIdle /\ FnIdle /\ PcaInit /\ DataInit

NextData == DataNext /\ UNCHANGED <<aeVars, fnVars, pcaVars, callVars>>

SpecData == InitData /\ [][NextData]_vars

InitAnalyzer == AnalyzerInit /\ FnIdle /\ PcaInit /\ DataIdle

NextAnalyzer == AnalyzerNext /\ UNCHANGED <<fnVars, pcaVars, dataVars>>

SpecAnalyzer == InitAnalyzer /\ [][NextAnalyzer]_vars

(* ============================ properties =============================== *)

TruePositions(mask) == { i \in 1..Len(mask) : mask[i] }

Ascending(seq) == \A i \in 1..Len(seq), j \in 1..Len(seq) : i < j => seq[i] < seq[j]

\* C1: detect_anomalies marks position i iff S[i] > L (a value equal to L is
\* not anomalous); count is the number of marked positions and the length of
\* the index list, the index list is ascending and names exactly the marked
\* positions, percentage is 100 * count / len(S); when no value exceeds L the
\* result is count 0, percentage 0 and an empty index list.
C1_AnomalyClassifier ==
  "detect" \in fdone =>
    /\ Len(fanom.mask) = Len(fstat)
    /\ \A i \in 1..Len(fstat) : fanom.mask[i] <=> (1000 * fstat[i] > flimit)
    /\ fanom.count = Cardinality(TruePositions(fanom.mask))
    /\ fanom.count = Len(fanom.indices)
    /\ Ascending(fanom.indices)
    /\ { fanom.indices[k] + 1 : k \in 1..Len(fanom.indices) } = TruePositions(fanom.mask)
    /\ fanom.pct_num = 100 * fanom.count
    /\ fanom.pct_den = Len(fstat)
    /\ (\A i \in 1..Len(fstat) : 1000 * fstat[i] <= flimit) =>
         (fanom.count = 0 /\ fanom.pct_num = 0 /\ fanom.indices = <<>>)

\* a statistic with one value equal to the limit and two values above it
C1_Witness ==
  /\ "detect" \in fdone
  /\ \E i \in 1..Len(fstat) : 1000 * fstat[i] = flimit
  /\ fanom.count = 2
  /\ fanom.count < Len(fstat)

\* C4: run_fault_detection never raises and never returns a partial result:
\* whichever stage fails it returns None, and a returned bundle holds every key
\* with the statistics, both limits, both anomaly sets and the loss curve
\* that the run computed.
C4_NeverRaisesNoPartial ==
  /\ ~raised
  /\ pc = "done" => ret.kind \in {"None", "results"}
  /\ pc # "done" => ret = Running
  /\ (pc = "done" /\ failed # "none") => ret = RetNone
  /\ ret.kind = "results" =>
       /\ failed = "none"
       /\ ret.keys = ResultKeys
       /\ ret.stats = stats
       /\ stats.ok /\ Len(stats.re2) = split.n_test /\ Len(stats.spe) = split.n_test
       /\ ret.limits = limits /\ limits.ok
       /\ ret.anomalies = anomalies /\ anomalies.ok
       /\ Len(anomalies.re2.mask) = split.n_test
       /\ ret.train_losses = train_losses

\* classification fails after statistics and limits were computed
C4_Witness ==
  /\ pc = "done"
  /\ failed = "classification"
  /\ stats.ok
  /\ limits.ok
  /\ ret = RetNone

\* C5: every failure of a run surfaces a failure message on the run's channel:
\* a run_fault_detection that has a callback and returns None has delivered a
\* failure message, and the last status of a run_analysis that returns False
\* is the failure status.
C5_FailureSurfaced ==
  /\ (hasCallback /\ pc = "done" /\ ret.kind = "None") =>
       \E i \in 1..Len(msgs) : msgs[i].tag \in FailureTags
  /\ preturn = "False" => runStatus = "failed"

IsTrainMsg(m) == m.tag \in {"train_start", "train_params", "epoch", "train_done", "final_loss"}

EpochMsgs(n) == [k \in 1..n |-> Msg("epoch", k)]

\* C6: a train_model call with a callback that returns True has delivered the
\* start marker and the parameter summary, then one update per epoch numbered
\* 1..epochs in order, then the completion marker and the final loss, and no
\* other epoch update.
C6_TrainProgressOrder ==
  (hasCallback /\ trainResult = "True") =>
    SelectSeq(msgs, IsTrainMsg) =
      <<Msg("train_start", 0), Msg("train_params", epochs)>>
        \o EpochMsgs(epochs)
        \o <<Msg("train_done", 0), Msg("final_loss", train_losses[Len(train_losses)])>>

C6_Witness ==
  /\ hasCallback
  /\ trainResult = "True"
  /\ epochs = 2
  /\ Len(train_losses) = 2

\* C7: a forward/backward pass that throws is caught: train_model does not
\* raise, returns False and tells the callback; run_fault_detection then
\* returns None, computes no statistics and announces no completion.
C7_TrainFailureCaught ==
  /\ ~raised
  /\ failed = "train_epoch" =>
       /\ pc \in {"train_returned", "done"}
       /\ trainResult = "False"
       /\ hasCallback => msgs[Len(msgs)].tag = "train_failed"
       /\ ~stats.ok
       /\ \A i \in 1..Len(msgs) : msgs[i].tag # "complete"
       /\ pc = "done" => ret = RetNone

\* the second epoch throws, with a callback, and run_fault_detection is over
C7_Witness ==
  /\ failed = "train_epoch"
  /\ pc = "done"
  /\ hasCallback
  /\ epoch = 1

AlignedRows(rows) == \A i \in 1..Len(rows) : rows[i].scaled = rows[i].scores

\* C2: every SPE value of the PCA path subtracts, from the reconstruction of
\* the scores at a position of the training or validation part, the
\* standardized row of that same observation.
C2_SpeRowsAligned ==
  results.present => AlignedRows(results.spe_train) /\ AlignedRows(results.spe_val)

\* C3: the result bundle the analyzer holds between calls was produced by the
\* most recent run_analysis call, and a chart in the container was drawn from
\* the bundle of the most recent call.
C3_ResultsOfLatestRun ==
  /\ (ppc = "idle" /\ results.present) => results.run = pruns
  /\ display.kind \in {"monitoring", "variance", "projections"} => display.run = display.at

\* C8: a run that retains fewer than 3 components still succeeds; the bundle
\* of a successful run holds the statistics and both limits, and it holds the
\* projection outputs iff that run retained at least 3 components, in which
\* case they are that run's; the projection display reports insufficient
\* dimensions exactly for a bundle without them and draws only with them.
C8_ProjectionOptional ==
  /\ results.present =>
       /\ BaseKeys \subseteq results.keys
       /\ (VisKeys \subseteq results.keys) <=> (results.ncomp >= 3)
       /\ (VisKeys \cap results.keys # {}) => (VisKeys \subseteq results.keys)
       /\ results.ncomp >= 3 => results.vis_run = results.run
  /\ status = "insufficient_dims" => (results.present /\ results.ncomp < 3)
  /\ status = "projections_shown" => (results.present /\ results.ncomp >= 3)

\* the second run succeeds with 2 components and the projection display has
\* reported insufficient dimensions
C8_Witness ==
  /\ results.present
  /\ results.run = 2
  /\ results.ncomp = 2
  /\ preturn = "True"
  /\ status = "insufficient_dims"

\* C9: both estimators handle degenerate input: on a constant statistic they
\* return a limit or a defined error, and on fewer than 2 observations they
\* fail instead of returning a limit.
C9_DegenerateInputHandled ==
  /\ "kde" \in fdone =>
       \A c \in ConfLevels :
         /\ fkde[c].ok \/ fkde[c].error \in {"ValueError", "LinAlgError"}
         /\ Len(fstat) < 2 => ~fkde[c].ok
  /\ "percentile" \in fdone =>
       \A c \in ConfLevels : Len(fstat) < 2 => ~fpct[c].ok

\* C10: raising the confidence level never lowers the limit, for the
\* percentile estimator and for the KDE estimator.
C10_LimitMonotone ==
  \A c1 \in ConfLevels, c2 \in ConfLevels :
    c1 <= c2 =>
      /\ "percentile" \in fdone =>
           (fpct[c1].ok /\ fpct[c2].ok /\ fpct[c1].value <= fpct[c2].value)
      /\ "kde" \in fdone =>
           /\ fkde[c1].ok <=> fkde[c2].ok
           /\ fkde[c1].ok => fkde[c1].value <= fkde[c2].value

\* both estimators applied to one statistic, each limit strictly higher at
\* 0.999 than at 0.5
C10_Witness ==
  /\ {"percentile", "kde"} \subseteq fdone
  /\ fpct[500].value < fpct[999].value
  /\ fkde[500].ok
  /\ fkde[500].value < fkde[999].value

SeqRange(seq) == { seq[i] : i \in 1..Len(seq) }

\* C11: the split puts every one of the n rows in exactly one of the two
\* parts, the validation part holding 20% of the rows rounded up and the
\* training part the rest; T2_train and SPE_train have the length of the
\* training part, T2_val and SPE_val the length of the validation part, the
\* concatenated monitoring arrays have length n, and for n = 100 the parts
\* have 80 and 20 rows.
C11_SplitSizes ==
  /\ pwork.spe_train # <<>> =>
       LET n == pin.n
           tr == [i \in 1..Len(pwork.spe_train) |-> pwork.spe_train[i].scores]
           va == [i \in 1..Len(pwork.spe_val) |-> pwork.spe_val[i].scores]
       IN /\ SeqRange(tr) \cap SeqRange(va) = {}
          /\ SeqRange(tr) \cup SeqRange(va) = 0..(n - 1)
          /\ Cardinality(SeqRange(tr)) = Len(tr)
          /\ Cardinality(SeqRange(va)) = Len(va)
          /\ 5 * Len(va) >= n /\ 5 * (Len(va) - 1) < n
          /\ Len(tr) = n - Len(va)
          /\ Len(pwork.t2_train) = Len(tr)
          /\ pwork.t2_train = tr
  /\ (ppc = "idle" /\ preturn = "True") =>
       /\ Len(results.t2_train) = Len(results.spe_train)
       /\ Len(results.T2_val) = Len(results.spe_val)
       /\ Len(results.SPE_val) = Len(results.spe_val)
       /\ Len(results.t2_train) + Len(results.T2_val) = pin.n
       /\ Len(results.spe_train) + Len(results.SPE_val) = pin.n
  /\ NTest(100) = 20 /\ 100 - NTest(100) = 80

\* a successful run on 6 rows: 4 training rows, 2 validation rows
C11_Witness ==
  /\ ppc = "idle"
  /\ preturn = "True"
  /\ pin.n = 6
  /\ Len(results.spe_train) = 4
  /\ Len(results.T2_val) = 2

\* C12: load_data either returns a data set with at least one row and one
\* column, only numeric columns and no missing cell, or it reports failure;
\* it reports failure when the table cannot be read, has no numeric column,
\* or has a missing value in a retained column of every row.
C12_LoadedDataClean ==
  (dcase = "load" /\ ddone) =>
    /\ dframe.ok =>
         /\ dfile.readable
         /\ dframe.rows # {} /\ dframe.cols # {}
         /\ dframe.rows \subseteq 1..dfile.rows
         /\ dframe.cols \subseteq 1..dfile.cols
         /\ \A c \in dframe.cols : dfile.numeric[c]
         /\ \A r \in dframe.rows : \A c \in dframe.cols : ~dfile.missing[r][c]
    /\ ~dframe.ok => dframe = NoFrame
    /\ ~dfile.readable => ~dframe.ok
    /\ (dfile.readable /\ \A c \in 1..dfile.cols : ~dfile.numeric[c]) => ~dframe.ok
    /\ (dfile.readable /\
          \A r \in 1..dfile.rows :
            \E c \in 1..dfile.cols : dfile.numeric[c] /\ dfile.missing[r][c]) => ~dframe.ok

\* a table with a text column and a row that misses a numeric value, loaded
\* as one row and one column
C12_Witness ==
  /\ dcase = "load" /\ ddone
  /\ dframe.ok
  /\ dfile.rows = 2 /\ dfile.cols = 2
  /\ Cardinality(dframe.rows) = 1
  /\ Cardinality(dframe.cols) = 1
  /\ \E r \in 1..dfile.rows : \E c \in dframe.cols : dfile.missing[r][c]

TrainTags == {"train_start", "train_structure", "train_params", "separator", "epoch",
              "train_done", "final_loss", "train_failed"}

\* the phase a message belongs to: load, preprocess, train, compute, complete
Phase(m) ==
  CASE m.tag \in {"loading", "loaded"} -> 1
    [] m.tag \in {"preprocessing", "preprocessed"} -> 2
    [] m.tag \in TrainTags -> 3
    [] m.tag \in {"computing", "stats_done", "re2_report", "spe_report",
                  "analysis_error"} -> 4
    [] m.tag = "complete" -> 5

\* C13: the messages of a run_fault_detection call with a callback come in
\* phase order load, preprocess, train, compute, complete; every training
\* message lies after the preprocessing-complete message and before the
\* computing-statistics message; the analysis-complete message is delivered
\* iff the call returns a result bundle, and then it is the last message.
C13_PhaseOrder ==
  hasCallback =>
    /\ \A i \in 1..Len(msgs), j \in 1..Len(msgs) :
         i < j => Phase(msgs[i]) <= Phase(msgs[j])
    /\ \A i \in 1..Len(msgs) :
         msgs[i].tag \in TrainTags =>
           /\ \E j \in 1..(i - 1) : msgs[j].tag = "preprocessed"
           /\ \A k \in 1..Len(msgs) : msgs[k].tag = "computing" => i < k
    /\ pc # "done" => \A i \in 1..Len(msgs) : msgs[i].tag # "complete"
    /\ pc = "done" =>
         ((\E i \in 1..Len(msgs) : msgs[i].tag = "complete") <=> ret.kind = "results")
    /\ ret.kind = "results" =>
         /\ msgs[Len(msgs)].tag = "complete"
         /\ \A i \in 1..(Len(msgs) - 1) : msgs[i].tag # "complete"

\* a run of two epochs with a callback that returns the bundle
C13_Witness ==
  /\ hasCallback
  /\ epochs = 2
  /\ pc = "done"
  /\ ret.kind = "results"
  /\ msgs[Len(msgs)].tag = "complete"
  /\ \E i \in 1..Len(msgs) : msgs[i] = Msg("epoch", 2)

\* C14: for a statistic whose density sum is positive and every confidence
\* level of (0, 1], the KDE limit exists (the lookup finds a grid point), lies
\* in [min(statistic), max(statistic)], and is the smallest point of the
\* 1000-point grid whose normalized cumulative density reaches the level.
C14_KdeLimitOnGrid ==
  ("kde" \in fdone /\ Len(fstat) >= 2 /\ SeqMin(fstat) # SeqMax(fstat)) =>
    /\ \A c \in ConfLevelsClosed :
         /\ fkde[c].ok
         /\ (GridN - 1) * SeqMin(fstat) <= fkde[c].value
         /\ fkde[c].value <= (GridN - 1) * SeqMax(fstat)
    /\ LET smin == SeqMin(fstat)
           smax == SeqMax(fstat)
           cum == CumSum(fstat, smin, smax, 1, GridN, 0)
       IN \A c \in ConfLevelsClosed :
            \E k \in 1..GridN :
              /\ fkde[c].value = GridX(smin, smax, k - 1)
              /\ 1000 * cum[k] >= c * cum[GridN]
              /\ \A j \in 1..(k - 1) : 1000 * cum[j] < c * cum[GridN]

\* C15: for every input dimension d >= 1 the autoencoder train_model builds
\* has input width d and latent width max(2, d // 4): at least 2, equal to 2
\* for d = 8, and not the constructor's default of 10 (which max(2, d // 4)
\* first equals at d = 40).
C15_EncodingDim ==
  (dcase = "build" /\ ddone) =>
    /\ dmodel.input_dim = ddim
    /\ dmodel.encoding_dim >= 2
    /\ 4 * dmodel.encoding_dim <= Max(8, ddim)
    /\ ddim < 4 * (dmodel.encoding_dim + 1)
    /\ ddim = 8 => dmodel.encoding_dim = 2
    /\ ddim < 40 => dmodel.encoding_dim # DefaultEncodingDim

\* the model for 12 inputs has latent width 3
C15_Witness ==
  /\ dcase = "build" /\ ddone
  /\ ddim = 12
  /\ dmodel.encoding_dim = 3

\* the fraction f equals the integer v
IsValue(f, v) == f.num = v * f.den

\* C16: the outlier step keeps the number of rows and of columns; with
\* remove_outliers it leaves every value inside [Q1 - 1.5 IQR, Q3 + 1.5 IQR]
\* of its column unchanged and puts, in place of every value outside, the
\* mean of the column as read (outliers included); without remove_outliers it
\* changes no value.
C16_OutlierReplacement ==
  (dcase = "outliers" /\ ddone) =>
    /\ Len(oclean) = Len(otable)
    /\ \A c \in 1..Len(otable) :
         LET col == otable[c]
             out == oclean[c]
             n == Len(col)
             q1 == Quantile(col, 1)
             q3 == Quantile(col, 3)
         IN /\ Len(out) = n
            /\ \A r \in 1..n :
                 LET inside == /\ 8 * col[r] >= 2 * q1 - 3 * (q3 - q1)
                               /\ 8 * col[r] <= 2 * q3 + 3 * (q3 - q1)
                 IN /\ out[r].den > 0
                    /\ (~oremove \/ inside) => IsValue(out[r], col[r])
                    /\ (oremove /\ ~inside) => out[r].num * n = SeqSum(col) * out[r].den

\* two columns of four rows; the 4 of the first column is outside its bounds
\* and replaced by the mean 1, which is not the mean of the remaining values
C16_Witness ==
  /\ dcase = "outliers" /\ ddone /\ oremove
  /\ Len(otable) = 2
  /\ otable[1] = <<0, 0, 0, 4>>
  /\ IsValue(oclean[1][4], 1)
  /\ IsValue(oclean[1][1], 0)

\* C17: between calls on one AEAnalyzer, is_trained holds only if the most
\* recent train_model call returned True, and calculate_statistics returns
\* statistics only then; it raises the not-trained error as long as no
\* training has succeeded.
C17_TrainedOnlyAfterSuccess ==
  pc = "idle" =>
    /\ is_trained => trainResult = "True"
    /\ statOutcome = "returned" => trainResult = "True"
    /\ statOutcome = "not_trained" => ~is_trained
    /\ (statOutcome # "none" /\ trainResult = "none") => statOutcome = "not_trained"

\* C18: for the same data, the same epochs value (0 included) and the same
\* behaviour of the environment, train_model returns the same value and
\* leaves the same is_trained and train_losses with a progress callback as
\* with progress_callback = None.
C18_CallbackObservationOnly ==
  (dcase = "train" /\ ddone) => tout.with = tout.without

NonZero(row) == { c \in 1..Len(row) : row[c] # 0 }

\* C19: calculate_statistics returns one RE2 and one SPE per observation of
\* the batch, in input order: SPE is the sum and RE2 the largest of the
\* observation's squared residuals, so 0 <= RE2 <= SPE, with equality when
\* the observation has one feature or at most one non-zero residual.
C19_Re2WithinSpe ==
  (dcase = "statistics" /\ ddone) =>
    /\ sstat.ok
    /\ Len(sstat.re2) = Len(sresid)
    /\ Len(sstat.spe) = Len(sresid)
    /\ \A i \in 1..Len(sresid) :
         LET row == sresid[i]
         IN /\ 0 <= sstat.re2[i]
            /\ sstat.re2[i] <= sstat.spe[i]
            /\ \E c \in 1..Len(row) : sstat.re2[i] = row[c] * row[c]
            /\ \A c \in 1..Len(row) : sstat.re2[i] >= row[c] * row[c]
            /\ sstat.spe[i] = SeqSum([c \in 1..Len(row) |-> row[c] * row[c]])
            /\ (Len(row) = 1 \/ Cardinality(NonZero(row)) <= 1) =>
                 sstat.re2[i] = sstat.spe[i]

\* a batch of two observations: the first with residuals of both signs and
\* RE2 below SPE, the second with a single, negative non-zero residual
C19_Witness ==
  /\ dcase = "statistics" /\ ddone
  /\ Len(sresid) = 2
  /\ sresid[1] = <<-1, 1, 0>>
  /\ sstat.re2[1] = 1 /\ sstat.spe[1] = 2
  /\ sresid[2] = <<0, -1, 0>>
  /\ sstat.re2[2] = 1 /\ sstat.spe[2] = 1

====
